---- MODULE Spec2Model ----
(***************************************************************************)
(* The signaling server of the live-streaming application: the `rooms`     *)
(* store, the per-socket metadata (roomId, isHost, viewerName), the        *)
(* socket.io room membership that `io.to(...)` addresses, and the six      *)
(* handlers registered in io.on('connection').  One action per handler;    *)
(* the events a handler emits are recorded, in order, in `out`.            *)
(*                                                                         *)
(* Room codes are upper-cased by the callers (the clients upper-case what  *)
(* they send), socket ids are generated by socket.io: the two sets of      *)
(* names are disjoint, but they live in the same socket.io namespace, so   *)
(* `io.to(x)` reaches socket x when x is a socket id and every socket that *)
(* called `socket.join(x)` when x is a room code.                          *)
(***************************************************************************)
EXTENDS Integers, Sequences, FiniteSets

\* ------------------------------------------------------------ bounds ----
MaxConn == 3        \* connections accepted over the life of the server
MaxRequests == 4    \* requests (create-room, join-room, relay) served over that life

\* ------------------------------------------------------------ values ----
\* JavaScript's undefined and null, as they appear in a string-valued field
Absent == "<undefined>"
Null == "<null>"

SocketId(i) == <<"socket", i>>
RoomCode(i) == <<"room", i>>
\* a missing roomId / `to` field, and the key it indexes `rooms` with
Undefined == <<"undefined", 0>>

SocketIds == {SocketId(i) : i \in 1..MaxConn}
\* the room codes the callers use
RoomCodes == {RoomCode(1), RoomCode(2)}
RoomKeys == RoomCodes \cup {Undefined}

\* a falsy value of JavaScript among the strings of the model
Truthy(v) == v \notin {"", Absent, Null}

\* -------------------------------------------------------- the inputs ----
Passwords == {"p", "q"}

\* one shape for every payload a handler receives; form is "string" (a bare
\* room code), "object", or "null" (no payload at all)
Data(form, roomId, name, password, to, payload) ==
  [form |-> form, roomId |-> roomId, name |-> name, password |-> password,
   to |-> to, payload |-> payload]
NoData == Data("null", Undefined, Absent, Absent, Undefined, Undefined)

\* what the Host client sends: { roomId: newRoomId, password: roomPassword };
\* the password field of host c's form is "p" for odd-numbered sockets, empty
\* for the others
HostPassword(c) == IF c[2] % 2 = 1 THEN "p" ELSE ""
HostInputs(c, codes) ==
  {Data("object", r, Absent, HostPassword(c), Undefined, Undefined) : r \in codes}

\* what the Viewer client sends: { roomId, name: nameToSend, password: roomPassword };
\* the name field of viewer c's form is fixed per socket, the password is typed
\* anew for each attempt
ViewerNameOf(c) ==
  CASE c[2] % 3 = 1 -> "Ann"
    [] c[2] % 3 = 2 -> "Bob"
    [] OTHER -> "Viewer"
ViewerInputs(c, codes, typed) ==
  {Data("object", r, ViewerNameOf(c), p, Undefined, Undefined) :
          r \in codes, p \in typed}

\* what a relay handler receives: the target is any name of the socket.io
\* namespace (a socket id or a room code), or is missing
\* The payload is the description or candidate the sender's peer connection
\* produced: each socket has its own.
PayloadOf(c) == <<"sdp", c[2]>>
RelayInputs(c, codes) ==
  {Data("object", Undefined, Absent, Absent, t, PayloadOf(c)) :
          t \in SocketIds \cup codes \cup {Undefined}}

\* --------------------------------------------------------- the state ----
VARIABLES
  nextId,   \* number of connections accepted so far (socket ids are never reused)
  sock,     \* connected socket id -> its roomId, isHost, viewerName and socket.rooms
  rooms,    \* the `rooms` object: room key -> [host, password, viewers]
  served,   \* number of create-room, join-room and relay requests served so far
  out,      \* the events emitted by the handler that ran last, in order
  last,     \* the event handled last: [op, c, data]
  heard,    \* the announcements in force: <<h, v, name>> when socket h received
            \* `viewer-joined` for v under that name and no `viewer-left` for v since
  client,   \* socket id -> the page behind it: Host or Viewer component and its state
  inbox,    \* socket id -> the events emitted to it that its page has yet to handle
  shake     \* the handshake so far: the offers sent and the offers handled

\* what the server holds, and what is recorded of its emissions
serverVars == <<nextId, sock, rooms, served, out, last>>
historyVars == <<heard>>
clientVars == <<client, inbox, shake>>
vars == <<serverVars, historyVars, clientVars>>

\* the sockets currently connected
Open == DOMAIN sock

\* a socket as io.on('connection') receives it
NewSocket ==
  [roomId |-> Undefined, isHost |-> Absent, viewerName |-> Absent, rooms |-> {}]

\* ------------------------------------------------------- emissions ----
Body(roomId, viewerId, viewerName, message, payload, from) ==
  [roomId |-> roomId, viewerId |-> viewerId, viewerName |-> viewerName,
   message |-> message, payload |-> payload, from |-> from]

\* an io.to(name) that addresses socket ids only, as if no handler had called
\* socket.join
RecipientsById(socks, name) == {s \in DOMAIN socks : s = name}

\* the sockets io.to(name) reaches: the socket of that id, and every socket
\* that joined the socket.io room of that name
Recipients(socks, name) ==
  {s \in DOMAIN socks : s = name \/ name \in socks[s].rooms}

\* socket.emit(ev, body): to the socket itself
SocketEmit(c, ev, body) ==
  [ev |-> ev, to |-> c, rcpts |-> {c}, body |-> body]

\* io.to(name).emit(ev, body)
IoToEmit(socks, name, ev, body) ==
  [ev |-> ev, to |-> name, rcpts |-> Recipients(socks, name), body |-> body]

\* an error sent with io.emit instead of socket.emit
ErrorEventToAll(c, message) ==
  [ev |-> "error", to |-> c, rcpts |-> SocketIds,
   body |-> Body(Undefined, Undefined, Absent, message, Undefined, Undefined)]

ErrorEvent(c, message) ==
  SocketEmit(c, "error", Body(Undefined, Undefined, Absent, message, Undefined, Undefined))

NoBody == Body(Undefined, Undefined, Absent, Absent, Undefined, Undefined)

\* ------------------------------------------------------ the `rooms` ----
\* rooms[roomId] is defined
RoomExists(rs, roomId) == roomId \in DOMAIN rs

\* a create handler that starts the store afresh
SetRoomAlone(rs, roomId, room) == [k \in {roomId} |-> room]

\* a create handler that keeps the record of a roomId already in the store
SetRoomIfAbsent(rs, roomId, room) ==
  [k \in DOMAIN rs \cup {roomId} |-> IF k \in DOMAIN rs THEN rs[k] ELSE room]

\* rooms[roomId] = room
SetRoom(rs, roomId, room) ==
  [k \in DOMAIN rs \cup {roomId} |-> IF k = roomId THEN room ELSE rs[k]]

\* a disconnect handler that notifies the viewers and forgets the delete
DeleteRoomKept(rs, roomId) == rs

\* delete rooms[roomId]
DeleteRoom(rs, roomId) == [k \in DOMAIN rs \ {roomId} |-> rs[k]]

\* a create handler that drops the password
NewRoomOpen(c, password) == [host |-> c, password |-> "", viewers |-> <<>>]

\* { host: socket.id, password: password || '', viewers: [] }
NewRoom(c, password) ==
  [host |-> c, password |-> IF Truthy(password) THEN password ELSE "",
   viewers |-> <<>>]

\* a join handler that uses unshift for push
AddViewerFirst(room, c, name) ==
  [room EXCEPT !.viewers = <<[id |-> c, name |-> name]>> \o @]

\* rooms[roomId].viewers.push({ id: socket.id, name })
AddViewer(room, c, name) ==
  [room EXCEPT !.viewers = Append(@, [id |-> c, name |-> name])]

\* a filter that compares the entry, not its id, with socket.id (as when the
\* list held bare ids): it keeps every entry
RemoveViewerNone(room, c) == room

\* rooms[roomId].viewers.filter(v => v.id !== socket.id)
RemoveViewer(room, c) ==
  [room EXCEPT !.viewers = SelectSeq(@, LAMBDA v : v.id # c)]

\* a join handler that compares the passwords even when the room has none
PasswordRejectedStrict(room, password) == room.password # password

\* a join handler without the password check
PasswordRejectedNever(room, password) == FALSE

\* rooms[roomId].password && rooms[roomId].password !== password
PasswordRejected(room, password) ==
  Truthy(room.password) /\ room.password # password

\* ------------------------------------------------- the destructuring ----
\* a create handler without the typeof test: destructuring a string finds
\* neither field
CreateArgsRaw(data) ==
  IF data.form = "string"
    THEN [roomId |-> Undefined, password |-> Absent]
    ELSE [roomId |-> data.roomId, password |-> data.password]

\* const { roomId, password } =
\*   typeof data === 'string' ? { roomId: data, password: '' } : data
CreateArgs(data) ==
  IF data.form = "string"
    THEN [roomId |-> data.roomId, password |-> ""]
    ELSE [roomId |-> data.roomId, password |-> data.password]

\* const { roomId, name = 'Viewer', password = '' } =
\*   typeof data === 'string' ? { roomId: data, name: 'Viewer', password: '' } : data
JoinArgs(data) ==
  IF data.form = "string"
    THEN [roomId |-> data.roomId, name |-> "Viewer", password |-> ""]
    ELSE [roomId |-> data.roomId,
          name |-> IF data.name = Absent THEN "Viewer" ELSE data.name,
          password |-> IF data.password = Absent THEN "" ELSE data.password]

\* a join handler without the `if (!rooms[roomId])` check: reading the password
\* of a room that is not there throws, and the catch block answers
JoinOutcomeUnchecked(rs, data) ==
  IF data.form = "null" THEN "throws"
  ELSE IF ~RoomExists(rs, JoinArgs(data).roomId) THEN "throws"
  ELSE IF PasswordRejected(rs[JoinArgs(data).roomId], JoinArgs(data).password)
    THEN "bad-password"
  ELSE "joined"

\* how a join-room request ends: the destructuring of a missing payload throws,
\* then the two checks in the order of the code
JoinOutcome(rs, data) ==
  IF data.form = "null" THEN "throws"
  ELSE IF ~RoomExists(rs, JoinArgs(data).roomId) THEN "not-found"
  ELSE IF PasswordRejected(rs[JoinArgs(data).roomId], JoinArgs(data).password)
    THEN "bad-password"
  ELSE "joined"

\* ------------------------------------------------------------- Init ----
Init ==
  /\ nextId = 0
  /\ sock = << >>
  /\ rooms = << >>
  /\ served = 0
  /\ out = << >>
  /\ last = [op |-> "start", c |-> Undefined, data |-> NoData]
  /\ heard = {}
  /\ client = << >>
  /\ inbox = << >>
  /\ shake = [sent |-> {}, got |-> {}]

Handled(op, c, data) == [op |-> op, c |-> c, data |-> data]

\* ---------------------------------------------------------- actions ----
\* io.on('connection'): socket.io gives the socket a fresh id
Connect ==
  /\ nextId < MaxConn
  /\ nextId' = nextId + 1
  /\ sock' = [s \in Open \cup {SocketId(nextId + 1)} |->
                IF s \in Open THEN sock[s] ELSE NewSocket]
  /\ out' = << >>
  /\ last' = Handled("connect", SocketId(nextId + 1), NoData)
  /\ UNCHANGED <<rooms, served>>

\* socket.on('create-room')
CreateRoom(c, data) ==
  /\ c \in Open
  /\ served < MaxRequests
  /\ served' = served + 1
  /\ last' = Handled("create-room", c, data)
  /\ UNCHANGED nextId
  /\ IF data.form = "null"
       THEN /\ out' = <<ErrorEvent(c, "Failed to create room")>>
            /\ UNCHANGED <<sock, rooms>>
       ELSE LET roomId == CreateArgs(data).roomId
                password == CreateArgs(data).password
            IN /\ rooms' = SetRoom(rooms, roomId, NewRoom(c, password))
               /\ sock' = [sock EXCEPT ![c] =
                            [@ EXCEPT !.rooms = @ \cup {roomId},
                                      !.roomId = roomId,
                                      !.isHost = "true"]]
               /\ out' = <<SocketEmit(c, "room-created",
                             Body(roomId, Undefined, Absent, Absent, Undefined, Undefined))>>

\* a join handler that announces the viewer to the whole socket.io room
HostOfRoomName(rs, roomId) == roomId

\* const hostId = rooms[roomId].host
HostOf(rs, roomId) == rs[roomId].host

\* socket.on('join-room')
JoinRoom(c, data) ==
  /\ c \in Open
  /\ served < MaxRequests
  /\ served' = served + 1
  /\ last' = Handled("join-room", c, data)
  /\ UNCHANGED nextId
  /\ LET outcome == JoinOutcome(rooms, data)
         roomId == JoinArgs(data).roomId
         name == JoinArgs(data).name
     IN CASE outcome = "throws" ->
               /\ out' = <<ErrorEvent(c, "Failed to join room")>>
               /\ UNCHANGED <<sock, rooms>>
          [] outcome = "not-found" ->
               /\ out' = <<ErrorEvent(c, "Room does not exist")>>
               /\ UNCHANGED <<sock, rooms>>
          [] outcome = "bad-password" ->
               /\ out' = <<ErrorEvent(c, "Incorrect room password")>>
               /\ UNCHANGED <<sock, rooms>>
          [] outcome = "joined" ->
               /\ rooms' = [rooms EXCEPT ![roomId] = AddViewer(@, c, name)]
               /\ sock' = [sock EXCEPT ![c] =
                            [@ EXCEPT !.rooms = @ \cup {roomId},
                                      !.roomId = roomId,
                                      !.isHost = "false",
                                      !.viewerName = name]]
               /\ out' = <<IoToEmit(sock', HostOf(rooms, roomId), "viewer-joined",
                             Body(Undefined, c, name, Absent, Undefined, Undefined)),
                           SocketEmit(c, "room-joined",
                             Body(roomId, Undefined, Absent, Absent, Undefined, Undefined))>>

\* the message of the catch block of each relay handler
RelayFailure(kind) ==
  CASE kind = "offer" -> "Failed to forward offer"
    [] kind = "answer" -> "Failed to forward answer"
    [] kind = "ice-candidate" -> "Failed to forward ICE candidate"

\* a relay handler that reports a target nobody listens on to the sender
ForwardOrFail(socks, c, kind, data) ==
  IF Recipients(socks, data.to) = {}
    THEN ErrorEvent(c, RelayFailure(kind))
    ELSE IoToEmit(socks, data.to, kind,
                  Body(Undefined, Undefined, Absent, Absent, data.payload, c))

\* io.to(data.to).emit(kind, { <payload>: data.<payload>, from: socket.id })
Forward(socks, c, kind, data) ==
  IoToEmit(socks, data.to, kind,
           Body(Undefined, Undefined, Absent, Absent, data.payload, c))

\* the body shared by the three relay handlers
Relay(c, kind, data) ==
  /\ c \in Open
  /\ served < MaxRequests
  /\ served' = served + 1
  /\ last' = Handled(kind, c, data)
  /\ out' = IF data.form = "null"
              THEN <<ErrorEvent(c, RelayFailure(kind))>>
              ELSE <<Forward(sock, c, kind, data)>>
  /\ UNCHANGED <<nextId, sock, rooms>>

\* socket.on('offer')
Offer(c, data) == Relay(c, "offer", data)

\* socket.on('answer')
Answer(c, data) == Relay(c, "answer", data)

\* socket.on('ice-candidate')
IceCandidate(c, data) == Relay(c, "ice-candidate", data)

\* the sockets left once socket.io has taken c out of every room, which it
\* does before it runs the 'disconnect' handler
Remaining(c) == [s \in Open \ {c} |-> sock[s]]

\* a disconnect handler that tests rooms[roomId] alone, without `roomId &&`
DisconnectBranchAnyKey(c) ==
  IF RoomExists(rooms, sock[c].roomId)
    THEN IF sock[c].isHost = "true" THEN "host" ELSE "viewer"
    ELSE "none"

\* which branch the 'disconnect' handler of socket c takes
DisconnectBranch(c) ==
  IF sock[c].roomId # Undefined /\ RoomExists(rooms, sock[c].roomId)
    THEN IF sock[c].isHost = "true" THEN "host" ELSE "viewer"
    ELSE "none"

\* { viewerId: socket.id, viewerName: socket.viewerName || '' }
ViewerLeftBody(c) ==
  Body(Undefined, c, IF Truthy(sock[c].viewerName) THEN sock[c].viewerName ELSE "",
       Absent, Undefined, Undefined)

\* a disconnect handler that tells the socket.io room of a viewer's roomId when
\* the store has no record for it
DisconnectEmitsToRoom(c) ==
  LET roomId == sock[c].roomId
  IN CASE DisconnectBranch(c) = "host" ->
            <<IoToEmit(Remaining(c), roomId, "host-disconnected", NoBody)>>
       [] DisconnectBranch(c) = "viewer" ->
            IF rooms[roomId].host # Undefined
              THEN <<IoToEmit(Remaining(c), rooms[roomId].host, "viewer-left",
                              ViewerLeftBody(c))>>
              ELSE << >>
       [] DisconnectBranch(c) = "none" ->
            IF sock[c].isHost = "false"
              THEN <<IoToEmit(Remaining(c), roomId, "viewer-left", ViewerLeftBody(c))>>
              ELSE << >>

\* what the 'disconnect' handler of socket c emits: `host-disconnected` to the
\* socket.io room, or `viewer-left` to the host when the record names one
DisconnectEmits(c) ==
  LET roomId == sock[c].roomId
  IN CASE DisconnectBranch(c) = "host" ->
            <<IoToEmit(Remaining(c), roomId, "host-disconnected", NoBody)>>
       [] DisconnectBranch(c) = "viewer" ->
            IF rooms[roomId].host # Undefined
              THEN <<IoToEmit(Remaining(c), rooms[roomId].host, "viewer-left",
                              ViewerLeftBody(c))>>
              ELSE << >>
       [] DisconnectBranch(c) = "none" -> << >>

\* socket.on('disconnect')
Disconnect(c) ==
  /\ c \in Open
  /\ last' = Handled("disconnect", c, NoData)
  /\ sock' = Remaining(c)
  /\ out' = DisconnectEmits(c)
  /\ UNCHANGED <<nextId, served>>
  /\ LET roomId == sock[c].roomId
     IN CASE DisconnectBranch(c) = "host" ->
               rooms' = DeleteRoom(rooms, roomId)
          [] DisconnectBranch(c) = "viewer" ->
               rooms' = [rooms EXCEPT ![roomId] = RemoveViewer(@, c)]
          [] DisconnectBranch(c) = "none" ->
               UNCHANGED rooms

\* the room handlers, as the two clients drive them
Next ==
  \/ /\ Connect
     /\ UNCHANGED <<historyVars, clientVars>>
  \/ /\ \E c \in SocketIds : \E data \in HostInputs(c, RoomCodes) : CreateRoom(c, data)
     /\ UNCHANGED <<historyVars, clientVars>>
  \/ /\ \E c \in SocketIds : \E data \in ViewerInputs(c, RoomCodes, Passwords \cup {""}) :
          JoinRoom(c, data)
     /\ UNCHANGED <<historyVars, clientVars>>
  \/ /\ \E c \in SocketIds : Disconnect(c)
     /\ UNCHANGED <<historyVars, clientVars>>

Spec == Init /\ [][Next]_vars

\* the relay handlers beside the room handlers, on one room code, the viewers
\* typing the password "p"
RelayCodes == {RoomCode(1)}
NextRelay ==
  \/ /\ Connect
     /\ UNCHANGED <<historyVars, clientVars>>
  \/ /\ \E c \in SocketIds : \E data \in HostInputs(c, RelayCodes) : CreateRoom(c, data)
     /\ UNCHANGED <<historyVars, clientVars>>
  \/ /\ \E c \in SocketIds : \E data \in ViewerInputs(c, RelayCodes, {"p"}) :
          JoinRoom(c, data)
     /\ UNCHANGED <<historyVars, clientVars>>
  \/ /\ \E c \in SocketIds : \E data \in RelayInputs(c, RelayCodes) : Offer(c, data)
     /\ UNCHANGED <<historyVars, clientVars>>
  \/ /\ \E c \in SocketIds : \E data \in RelayInputs(c, RelayCodes) : Answer(c, data)
     /\ UNCHANGED <<historyVars, clientVars>>
  \/ /\ \E c \in SocketIds : \E data \in RelayInputs(c, RelayCodes) : IceCandidate(c, data)
     /\ UNCHANGED <<historyVars, clientVars>>
  \/ /\ \E c \in SocketIds : Disconnect(c)
     /\ UNCHANGED <<historyVars, clientVars>>

SpecRelay == Init /\ [][NextRelay]_vars

\* the room handlers on two room codes beside the offers of the host client,
\* addressed to socket ids; the viewers type the password "p"
OfferInputs(c) ==
  {Data("object", Undefined, Absent, Absent, t, PayloadOf(c)) : t \in SocketIds}

NextRooms ==
  \/ /\ Connect
     /\ UNCHANGED <<historyVars, clientVars>>
  \/ /\ \E c \in SocketIds : \E data \in HostInputs(c, RoomCodes) : CreateRoom(c, data)
     /\ UNCHANGED <<historyVars, clientVars>>
  \/ /\ \E c \in SocketIds : \E data \in ViewerInputs(c, RoomCodes, {"p"}) : JoinRoom(c, data)
     /\ UNCHANGED <<historyVars, clientVars>>
  \/ /\ \E c \in SocketIds : \E data \in OfferInputs(c) : Offer(c, data)
     /\ UNCHANGED <<historyVars, clientVars>>
  \/ /\ \E c \in SocketIds : Disconnect(c)
     /\ UNCHANGED <<historyVars, clientVars>>

SpecRooms == Init /\ [][NextRooms]_vars

\* the room handlers on the payloads of the older clients, which send the bare
\* room code, beside hosts that send the object with their password
StringCodes == {RoomCode(1)}
BareCode(r) == Data("string", r, Absent, Absent, Undefined, Undefined)

NextString ==
  \/ /\ Connect
     /\ UNCHANGED <<historyVars, clientVars>>
  \/ /\ \E c \in SocketIds : \E data \in HostInputs(c, StringCodes) \cup
                                           {BareCode(r) : r \in StringCodes} :
          CreateRoom(c, data)
     /\ UNCHANGED <<historyVars, clientVars>>
  \/ /\ \E c \in SocketIds : \E data \in {BareCode(r) : r \in StringCodes} : JoinRoom(c, data)
     /\ UNCHANGED <<historyVars, clientVars>>
  \/ /\ \E c \in SocketIds : Disconnect(c)
     /\ UNCHANGED <<historyVars, clientVars>>

SpecString == Init /\ [][NextString]_vars

\* the announcements in force once the emissions o have reached the sockets
\* open: a `viewer-joined` received by h about v replaces what h had heard of
\* v, a `viewer-left` received by h about v ends it, and what a closed socket
\* had heard goes with it
HeardAfter(hd, o, open) ==
  LET joined == UNION {{<<h, o[i].body.viewerId, o[i].body.viewerName>> : h \in o[i].rcpts} :
                         i \in {j \in 1..Len(o) : o[j].ev = "viewer-joined"}}
      left == UNION {{<<h, o[i].body.viewerId>> : h \in o[i].rcpts} :
                       i \in {j \in 1..Len(o) : o[j].ev = "viewer-left"}}
      about == left \cup {<<t[1], t[2]>> : t \in joined}
  IN {t \in hd : t[1] \in open /\ <<t[1], t[2]>> \notin about} \cup joined

\* the step's emissions are received
Hear ==
  /\ heard' = HeardAfter(heard, out', DOMAIN sock')
  /\ UNCHANGED clientVars

\* the room handlers on one room code, with the names a join-room payload can
\* carry: none, the empty string, null, and a name
HeardCodes == {RoomCode(1)}
NamedInputs(c, codes) ==
  {Data("object", r, n, "p", Undefined, Undefined) :
          r \in codes, n \in {Absent, "", Null, ViewerNameOf(c)}}

NextHeard ==
  \/ /\ Connect
     /\ Hear
  \/ /\ \E c \in SocketIds : \E data \in HostInputs(c, HeardCodes) : CreateRoom(c, data)
     /\ Hear
  \/ /\ \E c \in SocketIds : \E data \in NamedInputs(c, HeardCodes) : JoinRoom(c, data)
     /\ Hear
  \/ /\ \E c \in SocketIds : Disconnect(c)
     /\ Hear

SpecHeard == Init /\ [][NextHeard]_vars

\* ------------------------------------------------------ the clients ----
\* a peer connection of a page, with the handler that made it: the socket at
\* the other end, whether the connection is open, whether the page's reference
\* still holds it, and whether the handler has run to its end
Call(peer) == [peer |-> peer, open |-> TRUE, current |-> TRUE, done |-> FALSE]

\* the page behind a socket once its component is mounted: the Host component
\* (isStreaming, viewers, peerConnectionsRef) or the Viewer component
\* (isJoined, socket.hostId, peerConnectionRef)
Page(kind) ==
  [kind |-> kind, streaming |-> FALSE, joined |-> FALSE, hostId |-> Undefined,
   viewers |-> << >>, calls |-> << >>]

\* Host, setViewers(prev => [...prev, { id, name: data.viewerName || 'Viewer' }])
ShowViewer(pg, v, name) ==
  [pg EXCEPT !.viewers =
     Append(@, [id |-> v, name |-> IF Truthy(name) THEN name ELSE "Viewer"])]

\* Host, setViewers(prev => prev.filter(v => v.id !== data.viewerId))
HideViewer(pg, v) ==
  [pg EXCEPT !.viewers = SelectSeq(@, LAMBDA w : w.id # v)]

\* the reference is overwritten: the connections made for the sockets in
\* peers are no longer held
Released(calls, peers) ==
  [i \in DOMAIN calls |->
     IF calls[i].peer \in peers THEN [calls[i] EXCEPT !.current = FALSE]
                               ELSE calls[i]]

\* pc.close() on the connections the reference holds for the sockets in peers,
\* and the reference is dropped
Closed(calls, peers) ==
  [i \in DOMAIN calls |->
     IF calls[i].current /\ calls[i].peer \in peers
       THEN [calls[i] EXCEPT !.open = FALSE, !.current = FALSE]
       ELSE calls[i]]

\* a closed connection whose handler has ended is garbage
Prune(calls) == SelectSeq(calls, LAMBDA k : k.open \/ ~k.done)

\* a Host page whose `viewer-joined` listener is registered twice
OnViewerJoinedTwice(pg, v) ==
  [pg EXCEPT !.calls = Append(Append(Released(@, {v}),
                                     [Call(v) EXCEPT !.current = FALSE]), Call(v))]

\* Host, socket.on('viewer-joined') up to its first await:
\* createPeerConnection(data.viewerId)
OnViewerJoined(pg, v) ==
  [pg EXCEPT !.calls = Append(Released(@, {v}), Call(v))]

\* Host, socket.on('viewer-left'): close and delete peerConnectionsRef[viewerId]
OnViewerLeft(pg, v) ==
  [pg EXCEPT !.calls = Prune(Closed(@, {v}))]

\* Viewer, socket.on('offer') up to its first await: socket.hostId = data.from,
\* createPeerConnection()
OnOffer(pg, h) ==
  [pg EXCEPT !.hostId = h,
             !.calls = Append(Released(@, SocketIds), Call(h))]

\* Viewer, socket.on('host-disconnected'): leaveRoom()
OnHostDisconnected(pg) ==
  [pg EXCEPT !.joined = FALSE,
             !.calls = Prune(Closed(@, SocketIds))]

\* the events whose listener changes the page; the listeners of the others
\* (room-created, error, answer, ice-candidate) hand their payload to the
\* browser and are not followed
Queued(kind, ev) ==
  \/ kind = "host" /\ ev \in {"viewer-joined", "viewer-left"}
  \/ kind = "viewer" /\ ev \in {"room-joined", "offer", "host-disconnected"}

\* what a listener does to its page
Listen(pg, e) ==
  CASE pg.kind = "host" /\ e.ev = "viewer-joined" ->
         OnViewerJoined(ShowViewer(pg, e.body.viewerId, e.body.viewerName),
                        e.body.viewerId)
    [] pg.kind = "host" /\ e.ev = "viewer-left" ->
         HideViewer(OnViewerLeft(pg, e.body.viewerId), e.body.viewerId)
    [] pg.kind = "viewer" /\ e.ev = "room-joined" -> [pg EXCEPT !.joined = TRUE]
    [] pg.kind = "viewer" /\ e.ev = "offer" -> OnOffer(pg, e.body.from)
    [] pg.kind = "viewer" /\ e.ev = "host-disconnected" -> OnHostDisconnected(pg)
    [] OTHER -> pg

\* the events of the emissions o that wait for the page of socket s
Arrivals(o, s, kind) ==
  LET mine == SelectSeq(o, LAMBDA e : s \in e.rcpts /\ Queued(kind, e.ev))
  IN [i \in 1..Len(mine) |-> [ev |-> mine[i].ev, body |-> mine[i].body]]

\* socket.io hands the step's emissions to the sockets, in order
Arrive(ib) ==
  inbox' = [s \in DOMAIN sock' |->
              (IF s \in DOMAIN ib THEN ib[s] ELSE << >>)
                \o Arrivals(out', s, client'[s].kind)]

\* a step of a page alone: the server is not involved
Local == UNCHANGED <<serverVars, historyVars>>

\* what a page sends with a description or a candidate
Signal(c, to) == Data("object", Undefined, Absent, Absent, to, PayloadOf(c))

\* which component a tab mounts: the first tab of every three opens the Host
\* page, the others the Viewer page
KindOf(c) == IF c[2] % 3 = 1 THEN "host" ELSE "viewer"

\* the page is loaded: `const socket = io(...)`, and its component is mounted
Load ==
  /\ Connect
  /\ client' = [s \in DOMAIN sock' |->
                  IF s \in DOMAIN client THEN client[s] ELSE Page(KindOf(s))]
  /\ Arrive(inbox)
  /\ UNCHANGED <<shake, heard>>

\* Host, startStream: create-room with a fresh code and the typed password
StartStream(c, data) ==
  /\ c \in Open
  /\ client[c].kind = "host"
  /\ ~client[c].streaming
  /\ CreateRoom(c, data)
  /\ client' = [client EXCEPT ![c].streaming = TRUE]
  /\ Arrive(inbox)
  /\ UNCHANGED <<shake, heard>>

\* Viewer, joinRoom: the join form is shown while isJoined is false
JoinClick(c, data) ==
  /\ c \in Open
  /\ client[c].kind = "viewer"
  /\ ~client[c].joined
  /\ JoinRoom(c, data)
  /\ UNCHANGED <<client, shake, heard>>
  /\ Arrive(inbox)

\* the page of socket c handles the next event that waits for it
Receive(c) ==
  /\ c \in Open
  /\ inbox[c] # << >>
  /\ LET e == Head(inbox[c])
     IN /\ client' = [client EXCEPT ![c] = Listen(@, e)]
        /\ shake' = IF client[c].kind = "viewer" /\ e.ev = "offer"
                      THEN [shake EXCEPT !.got = @ \cup {<<c, e.body.from>>}]
                      ELSE shake
  /\ inbox' = [inbox EXCEPT ![c] = Tail(@)]
  /\ Local

\* Host, the rest of socket.on('viewer-joined'): createOffer and
\* setLocalDescription have resolved, the offer goes to the viewer
SendOffer(c, i) ==
  /\ c \in Open
  /\ client[c].kind = "host"
  /\ i \in DOMAIN client[c].calls
  /\ ~client[c].calls[i].done /\ client[c].calls[i].open
  /\ Offer(c, Signal(c, client[c].calls[i].peer))
  /\ client' = [client EXCEPT ![c].calls[i].done = TRUE]
  /\ shake' = [shake EXCEPT !.sent = @ \cup {<<c, client[c].calls[i].peer>>}]
  /\ Arrive(inbox)
  /\ UNCHANGED heard

\* Viewer, the rest of socket.on('offer'): the answer goes to data.from
SendAnswer(c, i) ==
  /\ c \in Open
  /\ client[c].kind = "viewer"
  /\ i \in DOMAIN client[c].calls
  /\ ~client[c].calls[i].done /\ client[c].calls[i].open
  /\ Answer(c, Signal(c, client[c].calls[i].peer))
  /\ client' = [client EXCEPT ![c].calls[i].done = TRUE]
  /\ Arrive(inbox)
  /\ UNCHANGED <<shake, heard>>

\* the connection was closed while its handler awaited it: the awaited call
\* rejects, the catch block logs, nothing is sent
GiveUp(c, i) ==
  /\ c \in Open
  /\ i \in DOMAIN client[c].calls
  /\ ~client[c].calls[i].done /\ ~client[c].calls[i].open
  /\ client' = [client EXCEPT ![c].calls =
                  Prune([@ EXCEPT ![i].done = TRUE])]
  /\ UNCHANGED <<inbox, shake>>
  /\ Local

\* Host, peerConnection.onicecandidate: the candidate goes to the viewer the
\* connection was made for
HostIce(c, i) ==
  /\ c \in Open
  /\ client[c].kind = "host"
  /\ i \in DOMAIN client[c].calls
  /\ client[c].calls[i].open
  /\ IceCandidate(c, Signal(c, client[c].calls[i].peer))
  /\ UNCHANGED <<client, shake, heard>>
  /\ Arrive(inbox)

\* Viewer, peerConnection.onicecandidate: event.candidate && socket.hostId
ViewerIce(c, i) ==
  /\ c \in Open
  /\ client[c].kind = "viewer"
  /\ i \in DOMAIN client[c].calls
  /\ client[c].calls[i].open
  /\ client[c].hostId # Undefined
  /\ IceCandidate(c, Signal(c, client[c].hostId))
  /\ UNCHANGED <<client, shake, heard>>
  /\ Arrive(inbox)

\* Host, stopStream: every connection of peerConnectionsRef is closed and the
\* reference is emptied; the server is not told
StopStream(c) ==
  /\ c \in Open
  /\ client[c].kind = "host"
  /\ client[c].streaming
  /\ client' = [client EXCEPT ![c] =
                  [@ EXCEPT !.streaming = FALSE,
                            !.viewers = << >>,
                            !.calls = Prune(Closed(@, SocketIds))]]
  /\ UNCHANGED <<inbox, shake>>
  /\ Local

\* Viewer, the Leave Stream button: leaveRoom(); the server is not told
LeaveRoom(c) ==
  /\ c \in Open
  /\ client[c].kind = "viewer"
  /\ client[c].joined
  /\ client' = [client EXCEPT ![c] = OnHostDisconnected(@)]
  /\ UNCHANGED <<inbox, shake>>
  /\ Local

\* the tab is closed
Leave(c) ==
  /\ Disconnect(c)
  /\ client' = [s \in DOMAIN sock' |-> client[s]]
  /\ Arrive(inbox)
  /\ UNCHANGED <<shake, heard>>

\* the two pages and the server between them, on one room code
PageCodes == {RoomCode(1)}
NextPages ==
  \/ Load
  \/ \E c \in SocketIds : \E data \in HostInputs(c, PageCodes) : StartStream(c, data)
  \/ \E c \in SocketIds : \E data \in ViewerInputs(c, PageCodes, {"p"}) : JoinClick(c, data)
  \/ \E c \in SocketIds : Receive(c)
  \/ \E c \in SocketIds : \E i \in 1..MaxRequests : SendOffer(c, i)
  \/ \E c \in SocketIds : \E i \in 1..MaxRequests : SendAnswer(c, i)
  \/ \E c \in SocketIds : \E i \in 1..MaxRequests : GiveUp(c, i)
  \/ \E c \in SocketIds : \E i \in 1..MaxRequests : HostIce(c, i)
  \/ \E c \in SocketIds : \E i \in 1..MaxRequests : ViewerIce(c, i)
  \/ \E c \in SocketIds : StopStream(c)
  \/ \E c \in SocketIds : LeaveRoom(c)
  \/ \E c \in SocketIds : Leave(c)

SpecPages == Init /\ [][NextPages]_vars

\* the pages when a host that starts again may draw another code:
\* generateRoomId() is random
StreamCodes == RoomCodes
NextStreams ==
  \/ Load
  \/ \E c \in SocketIds : \E data \in HostInputs(c, StreamCodes) : StartStream(c, data)
  \/ \E c \in SocketIds : \E data \in ViewerInputs(c, StreamCodes, {"p"}) : JoinClick(c, data)
  \/ \E c \in SocketIds : Receive(c)
  \/ \E c \in SocketIds : \E i \in 1..MaxRequests : SendOffer(c, i)
  \/ \E c \in SocketIds : \E i \in 1..MaxRequests : SendAnswer(c, i)
  \/ \E c \in SocketIds : \E i \in 1..MaxRequests : GiveUp(c, i)
  \/ \E c \in SocketIds : \E i \in 1..MaxRequests : HostIce(c, i)
  \/ \E c \in SocketIds : \E i \in 1..MaxRequests : ViewerIce(c, i)
  \/ \E c \in SocketIds : StopStream(c)
  \/ \E c \in SocketIds : LeaveRoom(c)
  \/ \E c \in SocketIds : Leave(c)

SpecStreams == Init /\ [][NextStreams]_vars

\* every handler on the payloads the clients never send: an object without its
\* roomId, and no payload at all; one room code, and the key a missing roomId
\* indexes
FormCodes == {RoomCode(1)}
CreateForms(c) ==
  {Data("object", r, Absent, HostPassword(c), Undefined, Undefined) : r \in FormCodes}
  \cup {Data("object", Undefined, Absent, Absent, Undefined, Undefined), NoData}
JoinForms(c) ==
  {Data("object", r, ViewerNameOf(c), "q", Undefined, Undefined) : r \in FormCodes}
  \cup {Data("object", Undefined, Absent, Absent, Undefined, Undefined), NoData}
RelayForms(c) == {NoData}

NextForms ==
  \/ /\ Connect
     /\ UNCHANGED <<historyVars, clientVars>>
  \/ /\ \E c \in SocketIds : \E data \in CreateForms(c) : CreateRoom(c, data)
     /\ UNCHANGED <<historyVars, clientVars>>
  \/ /\ \E c \in SocketIds : \E data \in JoinForms(c) : JoinRoom(c, data)
     /\ UNCHANGED <<historyVars, clientVars>>
  \/ /\ \E c \in SocketIds : \E data \in RelayForms(c) : Offer(c, data)
     /\ UNCHANGED <<historyVars, clientVars>>
  \/ /\ \E c \in SocketIds : \E data \in RelayForms(c) : Answer(c, data)
     /\ UNCHANGED <<historyVars, clientVars>>
  \/ /\ \E c \in SocketIds : \E data \in RelayForms(c) : IceCandidate(c, data)
     /\ UNCHANGED <<historyVars, clientVars>>
  \/ /\ \E c \in SocketIds : Disconnect(c)
     /\ UNCHANGED <<historyVars, clientVars>>

SpecForms == Init /\ [][NextForms]_vars

\* ------------------------------------------------------------ claims ----
RelayKinds == {"offer", "answer", "ice-candidate"}

\* the ids listed in a room's viewer list
ViewerIds(room) == {room.viewers[i].id : i \in 1..Len(room.viewers)}

\* how many of the emissions in o deliver event ev to socket s
Delivered(o, s, ev) ==
  Cardinality({i \in 1..Len(o) : o[i].ev = ev /\ s \in o[i].rcpts})

\* the emissions o are one `error` with this message, delivered to c alone
OnlyErrorTo(o, c, message) ==
  /\ Len(o) = 1
  /\ o[1].ev = "error"
  /\ o[1].rcpts = {c}
  /\ o[1].body.message = message

\* this step is the 'disconnect' handler of socket c, whose role is Host and
\* whose roomId names a room of the store
HostLeaves(c) ==
  /\ last'.op = "disconnect" /\ last'.c = c
  /\ c \in Open
  /\ sock[c].isHost = "true"
  /\ sock[c].roomId # Undefined
  /\ sock[c].roomId \in DOMAIN rooms

\* this step is the 'join-room' handler of socket c with a payload naming roomId
JoinRequested(c, roomId) ==
  /\ last'.op = "join-room" /\ last'.c = c
  /\ c \in Open
  /\ last'.data.form # "null"
  /\ last'.data.roomId = roomId

\* C1: when a Host connection disconnects while its room exists, the room
\* record is gone after that one step, viewers and all: a lookup of the roomId
\* finds nothing.
C1_HostDisconnectRemovesRoom ==
  [][\A c \in SocketIds :
       HostLeaves(c) => sock[c].roomId \notin DOMAIN rooms']_vars

\* a host has just disconnected, two sockets were told so, and the room is gone
C1_Witness ==
  /\ last.op = "disconnect"
  /\ Len(out) = 1
  /\ out[1].ev = "host-disconnected"
  /\ Cardinality(out[1].rcpts) >= 2
  /\ out[1].to \notin DOMAIN rooms

\* C2: on a host disconnect that destroys a room, `host-disconnected` is
\* received exactly once by each connection of the room's viewer list as it was
\* at the disconnect, and by no other connection.
C2_OnlyViewersNotified ==
  [][\A c \in SocketIds :
       HostLeaves(c) =>
         \A s \in SocketIds :
           Delivered(out', s, "host-disconnected") =
             IF s \in ViewerIds(rooms[sock[c].roomId]) THEN 1 ELSE 0]_vars

\* C3: a join-room on a room whose stored password is non-empty and differs
\* from the supplied one changes no room and no socket, and emits one `error`
\* "Incorrect room password", to the caller alone.
C3_WrongPasswordChangesNothing ==
  [][\A c \in SocketIds, r \in RoomKeys :
       ( /\ JoinRequested(c, r)
         /\ r \in DOMAIN rooms
         /\ rooms[r].password # ""
         /\ rooms[r].password # last'.data.password )
       => /\ rooms' = rooms
          /\ sock' = sock
          /\ OnlyErrorTo(out', c, "Incorrect room password")]_vars

\* a join has just been refused for its password, on a room that has a viewer,
\* with a second room open
C3_Witness ==
  /\ last.op = "join-room"
  /\ OnlyErrorTo(out, last.c, "Incorrect room password")
  /\ last.data.roomId \in DOMAIN rooms
  /\ Len(rooms[last.data.roomId].viewers) >= 1
  /\ last.data.password = "q"
  /\ Cardinality(DOMAIN rooms) >= 2

\* C4: a join-room whose roomId names no room of the store changes no room
\* (none is created) and no socket, and emits one `error` "Room does not
\* exist", to the caller alone.
C4_UnknownRoomChangesNothing ==
  [][\A c \in SocketIds, r \in RoomKeys :
       (JoinRequested(c, r) /\ r \notin DOMAIN rooms)
       => /\ rooms' = rooms
          /\ sock' = sock
          /\ OnlyErrorTo(out', c, "Room does not exist")]_vars

\* a join has just been refused for a room that does not exist, while another
\* room, with a viewer, does
C4_Witness ==
  /\ last.op = "join-room"
  /\ OnlyErrorTo(out, last.c, "Room does not exist")
  /\ last.data.roomId \notin DOMAIN rooms
  /\ \E r \in DOMAIN rooms : Len(rooms[r].viewers) >= 1

\* a is b with some entries left out, the others in b's order
RECURSIVE IsSublist(_, _)
IsSublist(a, b) ==
  IF a = << >> THEN TRUE
  ELSE IF b = << >> THEN FALSE
  ELSE IF Head(a) = Head(b) THEN IsSublist(Tail(a), Tail(b))
  ELSE IsSublist(a, Tail(b))

\* this step is a join-room of socket c on room r that passes both checks
JoinAccepted(c, r) ==
  /\ JoinRequested(c, r)
  /\ r \in DOMAIN rooms
  /\ (rooms[r].password = "" \/ rooms[r].password = last'.data.password)

\* the name a join-room payload supplies ('Viewer' when it has none)
SuppliedName(data) == IF data.name = Absent THEN "Viewer" ELSE data.name

\* C5: a successful join-room appends one entry {id = caller, name = supplied
\* name} at the end of the room's viewer list and leaves the earlier entries in
\* place; no step reorders a list (a list only loses entries, or gains one at
\* its end by a join), so the order of a viewer list is the order of the joins.
C5_JoinAppendsInOrder ==
  [][ /\ \A c \in SocketIds, r \in RoomKeys :
           JoinAccepted(c, r) =>
             /\ r \in DOMAIN rooms'
             /\ rooms'[r].viewers =
                  Append(rooms[r].viewers,
                         [id |-> c, name |-> SuppliedName(last'.data)])
      /\ \A r \in DOMAIN rooms \cap DOMAIN rooms' :
           \/ IsSublist(rooms'[r].viewers, rooms[r].viewers)
           \/ /\ last'.op = "join-room"
              /\ Len(rooms'[r].viewers) = Len(rooms[r].viewers) + 1
              /\ SubSeq(rooms'[r].viewers, 1, Len(rooms[r].viewers)) = rooms[r].viewers
    ]_vars

\* a join has just succeeded on a room that had a viewer already: the caller,
\* under the name it gave, is the last entry, behind another connection
C5_Witness ==
  /\ last.op = "join-room"
  /\ Len(out) = 2 /\ out[2].ev = "room-joined"
  /\ last.data.roomId \in DOMAIN rooms
  /\ LET vs == rooms[last.data.roomId].viewers
     IN /\ Len(vs) >= 2
        /\ vs[Len(vs)] = [id |-> last.c, name |-> last.data.name]
        /\ vs[1].id # last.c
        /\ last.data.name # "Viewer"

\* C6: no connection id occurs more than once in a room's viewer list.
C6_ViewerIdsUnique ==
  \A r \in DOMAIN rooms :
    \A i, j \in 1..Len(rooms[r].viewers) :
      i # j => rooms[r].viewers[i].id # rooms[r].viewers[j].id

\* this step is the 'disconnect' handler of socket c, whose role is Viewer and
\* whose roomId names a room of the store
ViewerLeaves(c) ==
  /\ last'.op = "disconnect" /\ last'.c = c
  /\ c \in Open
  /\ sock[c].isHost = "false"
  /\ sock[c].roomId # Undefined
  /\ sock[c].roomId \in DOMAIN rooms

C8_RelayReachesOnlyTarget ==
  [][\A c \in SocketIds :
       ( /\ last'.op \in RelayKinds /\ last'.c = c
         /\ c \in Open
         /\ last'.data.form # "null" )
       => /\ Len(out') = 1
          /\ out'[1].ev = last'.op
          /\ out'[1].rcpts \subseteq {last'.data.to}
          /\ out'[1].body.payload = last'.data.payload
          /\ out'[1].body.from = c]_vars

\* C9: a connection id appears in the viewer list of at most one room.
C9_ViewerOfOneRoom ==
  \A r, q \in DOMAIN rooms :
    r # q => ViewerIds(rooms[r]) \cap ViewerIds(rooms[q]) = {}

\* C10: a room's host connection id is not in that room's viewer list.
C10_HostNotViewer ==
  \A r \in DOMAIN rooms : rooms[r].host \notin ViewerIds(rooms[r])

\* C11: the roomId, the role and the display name of a connection are set at
\* most once: once any of them is assigned, no later create-room or join-room
\* of the same connection changes it for as long as the connection is open.
C11_MetadataSetOnce ==
  [][\A c \in Open \cap DOMAIN sock' :
       /\ sock[c].isHost # Absent => sock'[c].isHost = sock[c].isHost
       /\ sock[c].roomId # Undefined => sock'[c].roomId = sock[c].roomId
       /\ sock[c].viewerName # Absent => sock'[c].viewerName = sock[c].viewerName]_vars

\* C12: a room does not survive its host: the host id of every room of the
\* store is the id of a connection that is open.
C12_HostOfEveryRoomIsOpen ==
  \A r \in DOMAIN rooms : rooms[r].host \in Open

\* this step is the 'create-room' handler of socket c with a payload whose
\* roomId is roomId
CreateRequested(c, roomId) ==
  /\ last'.op = "create-room" /\ last'.c = c
  /\ c \in Open
  /\ last'.data.form # "null"
  /\ last'.data.roomId = roomId

\* the password a create-room payload supplies, empty when it supplies none
SuppliedPassword(data) ==
  IF data.form = "string" \/ data.password \in {Absent, Null} THEN "" ELSE data.password

\* the emissions of this step are one `room-created` naming roomId, received by
\* socket c and by nobody else
OnlyRoomCreatedTo(o, c, roomId) ==
  /\ Len(o) = 1
  /\ o[1].ev = "room-created"
  /\ o[1].body.roomId = roomId
  /\ o[1].rcpts = {c}

\* C13: after create-room with a roomId and a password from connection c, the
\* store holds under that roomId a room whose host is c, whose password is the
\* one given (the empty string when none was given) and whose viewer list is
\* empty, and exactly one `room-created` with that roomId was emitted, to c
\* alone.
C13_CreateStoresRoom ==
  [][\A c \in SocketIds : \A r \in RoomKeys :
       CreateRequested(c, r) =>
         /\ r \in DOMAIN rooms'
         /\ rooms'[r].host = c
         /\ rooms'[r].password = SuppliedPassword(last'.data)
         /\ rooms'[r].viewers = <<>>
         /\ OnlyRoomCreatedTo(out', c, r)]_vars

\* a create-room with password "p" has just been served: the room is stored
\* with that password and its creator was told
C13_Witness ==
  /\ last.op = "create-room"
  /\ last.data.form = "object"
  /\ last.data.password = "p"
  /\ last.data.roomId \in DOMAIN rooms
  /\ rooms[last.data.roomId] = [host |-> last.c, password |-> "p", viewers |-> <<>>]
  /\ OnlyRoomCreatedTo(out, last.c, last.data.roomId)

\* C14: a create-room on a roomId that is already in the store replaces the
\* record (new host, new password, empty viewer list) and leaves every other
\* room as it was; nothing is emitted to the previous host or its viewers and
\* the metadata of no other connection changes: the only emission is
\* `room-created` to the caller.
C14_CreateOverwritesSilently ==
  [][\A c \in SocketIds : \A r \in RoomKeys :
       (CreateRequested(c, r) /\ r \in DOMAIN rooms) =>
         /\ DOMAIN rooms' = DOMAIN rooms
         /\ rooms'[r] = [host |-> c, password |-> SuppliedPassword(last'.data),
                         viewers |-> <<>>]
         /\ \A k \in DOMAIN rooms \ {r} : rooms'[k] = rooms[k]
         /\ OnlyRoomCreatedTo(out', c, r)
         /\ \A s \in Open \ {c} : s \in DOMAIN sock' /\ sock'[s] = sock[s]]_vars

\* a room was just replaced by a third socket while the host that created it
\* and a viewer that joined it are still connected, with their metadata intact
C14_Witness ==
  /\ last.op = "create-room"
  /\ last.data.roomId \in DOMAIN rooms
  /\ rooms[last.data.roomId].host = last.c
  /\ rooms[last.data.roomId].viewers = <<>>
  /\ \E h \in Open \ {last.c} :
       sock[h].roomId = last.data.roomId /\ sock[h].isHost = "true"
  /\ \E v \in Open \ {last.c} :
       sock[v].roomId = last.data.roomId /\ sock[v].isHost = "false"

\* this step is a relay handler of socket c with a payload whose `to` is target
RelayRequested(c, target) ==
  /\ last'.op \in RelayKinds /\ last'.c = c
  /\ c \in Open
  /\ last'.data.form # "null"
  /\ last'.data.to = target

\* C15: a relay request is forwarded only when its sender has a role: an
\* offer, answer or ice-candidate of a connection that has neither created nor
\* joined a room is delivered to nobody.
C15_RelayNeedsRole ==
  [][\A c \in SocketIds : \A target \in SocketIds \cup RoomKeys :
       (RelayRequested(c, target) /\ sock[c].isHost = Absent) =>
         \A s \in SocketIds : \A kind \in RelayKinds : Delivered(out', s, kind) = 0]_vars

C17_ErrorOnlyToCaller ==
  [][\A i \in 1..Len(out') :
       out'[i].ev = "error" =>
         /\ last'.op \in {"create-room", "join-room"} \cup RelayKinds
         /\ out'[i].rcpts = {last'.c}
         /\ last'.c \in DOMAIN sock'
         /\ rooms' = rooms
         /\ sock' = sock]_vars

\* a viewer's request has just failed with an `error` while a room is stored:
\* the viewer is still connected and its next create-room can be served
C17_Witness ==
  /\ Len(out) = 1
  /\ out[1].ev = "error"
  /\ out[1].rcpts = {last.c}
  /\ last.c \in Open
  /\ sock[last.c].isHost = "false"
  /\ DOMAIN rooms # {}
  /\ ENABLED CreateRoom(last.c, Data("object", RoomCode(1), Absent, "p", Undefined, Undefined))

\* this step serves a request of socket c that lacks a required field: a
\* create-room or join-room without roomId, a relay without `to`, or a request
\* without payload
MalformedRequested(c) ==
  /\ last'.c = c
  /\ c \in Open
  /\ \/ /\ last'.op \in {"create-room", "join-room"}
        /\ last'.data.form = "null" \/ last'.data.roomId = Undefined
     \/ /\ last'.op \in RelayKinds
        /\ last'.data.form = "null" \/ last'.data.to = Undefined

\* C18: a request that lacks a required field is rejected: an `error` goes to
\* the caller, no room is created or modified, and the caller's role and roomId
\* stay as they were.
C18_MalformedRejected ==
  [][\A c \in SocketIds :
       MalformedRequested(c) =>
         /\ Len(out') = 1
         /\ out'[1].ev = "error"
         /\ out'[1].rcpts = {c}
         /\ rooms' = rooms
         /\ sock' = sock]_vars

C20_JoinAndHostDisconnectSerialised ==
  [][ /\ \A c \in SocketIds :
           HostLeaves(c) =>
             /\ sock[c].roomId \notin DOMAIN rooms'
             /\ \A s \in (ViewerIds(rooms[sock[c].roomId]) \cap Open) \ {c} :
                  Delivered(out', s, "host-disconnected") = 1
      /\ \A c \in SocketIds : \A r \in RoomKeys :
           (JoinRequested(c, r) /\ r \notin DOMAIN rooms) =>
             /\ OnlyErrorTo(out', c, "Room does not exist")
             /\ rooms' = rooms
             /\ sock' = sock
      /\ \A r \in DOMAIN rooms' : \A s \in ViewerIds(rooms'[r]) :
           (r \notin DOMAIN rooms \/ s \notin ViewerIds(rooms[r])) =>
             r \in DOMAIN rooms /\ JoinRequested(s, r)
    ]_vars

\* a room that had a viewer was destroyed by its host's disconnect, and the
\* join-room that came after it has just been refused: the early viewer is
\* still connected, the late caller has no entry anywhere
C20_Witness ==
  /\ last.op = "join-room"
  /\ OnlyErrorTo(out, last.c, "Room does not exist")
  /\ last.data.roomId \notin DOMAIN rooms
  /\ nextId > Cardinality(Open)
  /\ sock[last.c].isHost = Absent
  /\ \E v \in Open \ {last.c} :
       sock[v].roomId = last.data.roomId /\ sock[v].isHost = "false"

\* the password a join-room payload supplies, empty when it supplies none
TypedPassword(data) ==
  IF data.form = "string" \/ data.password = Absent THEN "" ELSE data.password

\* C21: the outcome of a join-room is decided by the store alone, whatever the
\* caller's own state, in this order: "Room does not exist" when the store has
\* no room under the roomId; otherwise "Incorrect room password" when the
\* stored password is non-empty and differs from the supplied one; otherwise
\* the join succeeds. A room whose stored password is empty accepts a join
\* with any password.
C21_JoinOutcomeByStore ==
  [][\A c \in SocketIds : \A r \in RoomKeys :
       JoinRequested(c, r) =>
         IF r \notin DOMAIN rooms
           THEN OnlyErrorTo(out', c, "Room does not exist")
         ELSE IF rooms[r].password # "" /\ rooms[r].password # TypedPassword(last'.data)
           THEN OnlyErrorTo(out', c, "Incorrect room password")
         ELSE /\ Delivered(out', c, "room-joined") = 1
              /\ Delivered(out', c, "error") = 0
              /\ c \in ViewerIds(rooms'[r])]_vars

\* a join carrying a password has just succeeded on a room stored without one,
\* for a caller that had a role already
C21_Witness ==
  /\ last.op = "join-room"
  /\ last.data.password \in Passwords
  /\ last.data.roomId \in DOMAIN rooms
  /\ rooms[last.data.roomId].password = ""
  /\ Delivered(out, last.c, "room-joined") = 1
  /\ last.c \in ViewerIds(rooms[last.data.roomId])
  /\ \E r \in DOMAIN rooms : r # last.data.roomId /\ last.c \in ViewerIds(rooms[r])

\* C22: the disconnect of a connection that never created or joined a room is
\* a no-op: the store and the metadata of every other connection are unchanged
\* and nothing is emitted.
C22_AnonymousDisconnectNoOp ==
  [][\A c \in SocketIds :
       ( /\ last'.op = "disconnect" /\ last'.c = c
         /\ c \in Open
         /\ sock[c].isHost = Absent )
       => /\ out' = << >>
          /\ rooms' = rooms
          /\ \A s \in Open \ {c} : s \in DOMAIN sock' /\ sock'[s] = sock[s]]_vars

\* the one request served so far stored a room under the key of a missing
\* roomId; another connection, which asked for nothing, has just disconnected:
\* the room and its host are as they were and nothing was emitted
C22_Witness ==
  /\ last.op = "disconnect"
  /\ served = 1
  /\ out = << >>
  /\ Undefined \in DOMAIN rooms
  /\ rooms[Undefined].host \in Open
  /\ rooms[Undefined].host # last.c
  /\ sock[rooms[Undefined].host].isHost = "true"

\* C23: the disconnect of a Viewer whose room is no longer in the store (its
\* host disconnected first) emits nothing, `viewer-left` included, and changes
\* no room.
C23_StaleViewerDisconnectSilent ==
  [][\A c \in SocketIds :
       ( /\ last'.op = "disconnect" /\ last'.c = c
         /\ c \in Open
         /\ sock[c].isHost = "false"
         /\ sock[c].roomId \notin DOMAIN rooms )
       => /\ out' = << >>
          /\ rooms' = rooms]_vars

\* three connections, three requests: a room was created and joined, its host
\* is gone and so is the room; one of its viewers is still connected and
\* another connection has just disconnected without anything being emitted
C23_Witness ==
  /\ last.op = "disconnect"
  /\ out = << >>
  /\ rooms = << >>
  /\ nextId = 3
  /\ served = 3
  /\ \E v \in Open :
       /\ Open = {v}
       /\ sock[v].isHost = "false"
       /\ sock[v].roomId # Undefined
       /\ last.c # v

\* C26: a room record leaves the store only by the disconnect of the
\* connection recorded as its host at that moment: no other step, and no
\* disconnect of another connection, removes it.
C26_OnlyHostDisconnectRemoves ==
  [][\A r \in DOMAIN rooms :
       r \notin DOMAIN rooms' => last'.op = "disconnect" /\ last'.c = rooms[r].host]_vars

\* C27: no stale viewer entries: every id in the viewer list of a room of the
\* store is the id of a connection that is open.
C27_ViewerEntriesAreOpen ==
  \A r \in DOMAIN rooms : ViewerIds(rooms[r]) \subseteq Open

\* the key of the store the step concerns: the roomId of a create-room or
\* join-room payload, the roomId of the socket that disconnects
ConcernedRoom ==
  IF last'.op = "disconnect" THEN sock[last'.c].roomId ELSE last'.data.roomId

\* C30: a step that concerns room R (a create-room or join-room naming R, the
\* disconnect of a connection whose roomId is R, a relay) leaves the record of
\* every other room of the store as it was, and adds no other room.
C30_OtherRoomsUnchanged ==
  [][ /\ \A k \in DOMAIN rooms :
           (last'.op \in RelayKinds \cup {"connect"} \/ k # ConcernedRoom) =>
             k \in DOMAIN rooms' /\ rooms'[k] = rooms[k]
      /\ \A k \in DOMAIN rooms' \ DOMAIN rooms :
           last'.op = "create-room" /\ k = last'.data.roomId
    ]_vars

\* a room with a viewer and a connected host stands beside a second room while
\* a connection that is neither that host nor one of those viewers has just
\* had a request served
C30_Witness ==
  /\ last.op \in {"create-room", "join-room"} \cup RelayKinds
  /\ \E k \in DOMAIN rooms :
       /\ \E r \in DOMAIN rooms : r # k
       /\ k # last.data.roomId
       /\ Len(rooms[k].viewers) >= 1
       /\ rooms[k].host \in Open
       /\ sock[rooms[k].host].roomId = k
       /\ last.c \notin ViewerIds(rooms[k]) \cup {rooms[k].host}

\* this step is the handler op of socket c on the bare room code r
BareRequested(op, c, r) ==
  /\ last'.op = op /\ last'.c = c
  /\ c \in Open
  /\ last'.data.form = "string"
  /\ last'.data.roomId = r

\* C29: a bare string payload is served as the object form with the defaults:
\* create-room "R" as create-room {roomId: "R", password: ""}, which stores an
\* open room under R for the caller; join-room "R" as join-room {roomId: "R",
\* name: "Viewer", password: ""}, which joins an open room under the name
\* "Viewer", is answered "Incorrect room password" by a room stored with a
\* password and "Room does not exist" when the store has no R.
C29_BareStringAsDefaults ==
  [][\A c \in SocketIds : \A r \in RoomKeys :
       /\ BareRequested("create-room", c, r) =>
            /\ r \in DOMAIN rooms'
            /\ rooms'[r] = [host |-> c, password |-> "", viewers |-> <<>>]
            /\ OnlyRoomCreatedTo(out', c, r)
            /\ sock'[c].roomId = r /\ sock'[c].isHost = "true"
       /\ BareRequested("join-room", c, r) =>
            IF r \notin DOMAIN rooms
              THEN OnlyErrorTo(out', c, "Room does not exist") /\ rooms' = rooms /\ sock' = sock
            ELSE IF rooms[r].password # ""
              THEN OnlyErrorTo(out', c, "Incorrect room password")
                   /\ rooms' = rooms /\ sock' = sock
            ELSE /\ rooms'[r].viewers = Append(rooms[r].viewers, [id |-> c, name |-> "Viewer"])
                 /\ Delivered(out', c, "room-joined") = 1
                 /\ \A i \in 1..Len(out') :
                      out'[i].ev = "viewer-joined" => out'[i].body.viewerName = "Viewer"
                 /\ sock'[c].roomId = r /\ sock'[c].isHost = "false"
                 /\ sock'[c].viewerName = "Viewer"]_vars

\* a bare-string join has just been refused by a room stored with a password,
\* while the host of the record that room replaced is still connected
C29_Witness ==
  /\ last.op = "join-room"
  /\ last.data.form = "string"
  /\ last.data.roomId \in DOMAIN rooms
  /\ rooms[last.data.roomId].password = "p"
  /\ OnlyErrorTo(out, last.c, "Incorrect room password")
  /\ \E h \in Open \ {rooms[last.data.roomId].host} :
       sock[h].isHost = "true" /\ sock[h].roomId = last.data.roomId

\* C25: every `viewer-left` a connection receives about a viewer comes after a
\* `viewer-joined` about that viewer received by the same connection, with no
\* other `viewer-left` about it in between.
C25_LeftFollowsJoined ==
  [][\A i \in 1..Len(out') : \A h \in out'[i].rcpts :
       out'[i].ev = "viewer-left" =>
         \E t \in heard : t[1] = h /\ t[2] = out'[i].body.viewerId]_vars

\* C28: the viewerName of the `viewer-left` a host receives about a viewer is
\* the viewerName of the `viewer-joined` that announced that viewer to it,
\* whatever name the join-room carried.
C28_LeftNameIsJoinedName ==
  [][\A i \in 1..Len(out') : \A h \in out'[i].rcpts :
       out'[i].ev = "viewer-left" =>
         \A t \in heard :
           (t[1] = h /\ t[2] = out'[i].body.viewerId) =>
             out'[i].body.viewerName = t[3]]_vars

\* the handlers of page pg that made a connection for socket v and have yet to
\* send their description or give up
Pending(pg, v) ==
  Cardinality({i \in DOMAIN pg.calls : ~pg.calls[i].done /\ pg.calls[i].peer = v})

\* the step is the server handling event op of socket c
Serves(op, c) == served' = served + 1 /\ last'.op = op /\ last'.c = c

\* the step is the page of socket c handling event ev
Receives(c, ev) ==
  /\ UNCHANGED serverVars
  /\ c \in DOMAIN inbox /\ inbox[c] # << >> /\ inbox'[c] = Tail(inbox[c])
  /\ Head(inbox[c]).ev = ev

\* the offers and answers of the pages pair up: a page starts a handler for v
\* only on `viewer-joined` for v (Host) or on an `offer` from v (Viewer), one
\* handler each time; a handler that sends, sends its one offer or answer to v;
\* only Host pages send offers and only Viewer pages send answers
PairedSteps ==
  \A c \in DOMAIN client \cap DOMAIN client' : \A v \in SocketIds :
    LET before == Pending(client[c], v)
        after == Pending(client'[c], v)
        started == IF client[c].kind = "host" THEN "viewer-joined" ELSE "offer"
        sent == IF client[c].kind = "host" THEN "offer" ELSE "answer"
        starts == /\ Receives(c, started)
                  /\ (IF started = "offer" THEN Head(inbox[c]).body.from
                                            ELSE Head(inbox[c]).body.viewerId) = v
        sends == /\ Serves(sent, c) /\ last'.data.to = v
                 /\ out' # << >> /\ out'[1].ev = sent /\ out'[1].to = v
    IN /\ starts => after = before + 1
       /\ sends => after = before - 1
       /\ after > before => starts
       /\ after >= before - 1
       /\ after < before => sends \/ UNCHANGED serverVars
       /\ (Serves("offer", c) \/ Serves("answer", c)) => Serves(sent, c)

\* a handler of page c for socket v ends in this step without sending
EndsSilent(c, v) ==
  /\ c \in DOMAIN client \cap DOMAIN client'
  /\ Pending(client'[c], v) < Pending(client[c], v)
  /\ UNCHANGED serverVars

\* page c held, before the step, a closed connection for v whose handler had
\* not ended
ClosedUnder(c, v) ==
  \E i \in DOMAIN client[c].calls :
    /\ client[c].calls[i].peer = v
    /\ ~client[c].calls[i].open /\ ~client[c].calls[i].done

\* a Viewer page answers, and sends candidates, only after an offer it handled,
\* and answers the socket that offer came from
AnswersFollowOffers ==
  \A c \in DOMAIN client :
    client[c].kind = "viewer" =>
      /\ Serves("answer", c) => <<c, last'.data.to>> \in shake.got
      /\ Serves("ice-candidate", c) => <<c, last'.data.to>> \in shake.got

\* an answer the server hands to a Host page comes from a socket that page has
\* sent an offer to
AnswersReachOfferers ==
  \A c \in DOMAIN client :
    Serves("answer", c) =>
      \A i \in DOMAIN out' : \A h \in out'[i].rcpts :
        out'[i].ev = "answer" /\ h \in DOMAIN client /\ client[h].kind = "host" =>
          <<h, c>> \in shake.sent /\ out'[i].body.from = c

\* C24 as stated: the handshake is two-step and pairwise, and every
\* `viewer-joined` a Host page receives is followed by exactly one offer to that
\* viewer, so that no handler of a Host page ends without sending its offer.
C24_ExactlyOneOffer ==
  [][/\ PairedSteps
     /\ AnswersFollowOffers
     /\ AnswersReachOfferers
     /\ \A c \in DOMAIN client : \A v \in SocketIds :
          client[c].kind = "host" => ~EndsSilent(c, v)]_vars

\* C24: the handshake is two-step and pairwise. A Host page starts one handler
\* per `viewer-joined` it receives and that handler sends at most one offer, to
\* that viewerId: it sends none only when the viewer's connection was closed, by
\* a `viewer-left` or by stopStream, while the handler was waiting. A Viewer page
\* answers only an offer it handled, to that offer's `from`, and sends no
\* candidate before it handled an offer. An answer reaches a Host page only from
\* a viewer the page has sent an offer to.
C24_PairwiseHandshake ==
  [][/\ PairedSteps
     /\ AnswersFollowOffers
     /\ AnswersReachOfferers
     /\ \A c \in DOMAIN client : \A v \in SocketIds :
          EndsSilent(c, v) => ClosedUnder(c, v)]_vars

\* C24: a Viewer page has just answered the offer it handled, and the server
\* has handed the answer to the Host page that sent that offer
C24_Witness ==
  /\ last.op = "answer"
  /\ out # << >>
  /\ \E h \in out[1].rcpts :
       /\ h \in DOMAIN client /\ client[h].kind = "host"
       /\ <<h, last.c>> \in shake.sent
       /\ <<last.c, h>> \in shake.got

\* the socket ids of a list of { id, name } entries
IdsOf(entries) == {entries[i].id : i \in DOMAIN entries}

\* C31: whenever every notification emitted to a Host page has been handled,
\* the viewer ids of the page's `viewers` state are the viewer ids of the
\* server's list for the room that host created last, also after the host
\* stopped streaming and started again.
C31_ViewersAgree ==
  \A h \in DOMAIN client :
    /\ client[h].kind = "host"
    /\ inbox[h] = << >>
    /\ sock[h].roomId \in DOMAIN rooms
    => IdsOf(client[h].viewers) = IdsOf(rooms[sock[h].roomId].viewers)

====
